---- MODULE Spec2Model ----
(***************************************************************************)
(* Model of app.py, the Streamlit salary dashboard.  The script is re-run  *)
(* from top to bottom on every widget interaction; the only state that     *)
(* survives a run is the st.cache_data memo of load_data() and the widget  *)
(* values kept in the session.  Each section of the script is one action,  *)
(* sequenced by pc.                                                        *)
(*                                                                         *)
(* Floats (the usd column and everything derived from it) are modelled as  *)
(* exact fractions <<numerator, denominator>> in lowest terms with a       *)
(* denominator 0 standing for NaN.  String ordering (sorted group keys,    *)
(* sorted modes) is given by the position of a name in a sorted list.      *)
(***************************************************************************)
EXTENDS Integers, Sequences, FiniteSets, TLC

VARIABLES
    csv,                  \* content of the remote CSV file (rows, no index)
    cache,                \* st.cache_data memo of load_data(): <<>> or <<df>>
    session,              \* widget label -> current selection (session state)
    pc,                   \* position of the running script
    df,                   \* l.81
    anos, senioridades, contratos, tamanhos,          \* l.89-111
    df_filtrado,          \* l.117
    salario_medio, salario_maximo, total_registros,   \* l.147-149
    cargo_mais_frequente, \* l.150
    top_cargos,           \* l.171
    dispersao,            \* l.190
    remoto,               \* l.235
    df_ds, media_pais,    \* l.253, l.256
    bound,                \* names assigned so far in this run's namespace
    rendered              \* UI elements emitted so far in this run

vars == <<csv, cache, session, pc, df, anos, senioridades, contratos, tamanhos,
          df_filtrado, salario_medio, salario_maximo, total_registros,
          cargo_mais_frequente, top_cargos, dispersao, remoto, df_ds,
          media_pais, bound, rendered>>

(***************************************************************************)
(* Bounds and input domains                                                *)
(***************************************************************************)
MaxRows == 3

MaxRowsTop == 12

NumCargosTop == 11

\* Role names in Python's string order (the order sorted() and groupby use).
CargoNames ==
    << "AI Engineer", "Analytics Engineer", "BI Analyst", "BI Developer",
       "Data Analyst", "Data Architect", "Data Engineer", "Data Manager",
       "Data Scientist", "ML Engineer", "MLOps Engineer", "Research Analyst",
       "Research Scientist" >>

\* Country codes in Python's string order.
PaisNames == << "BRA", "USA" >>

CsvRow(a, s, c, t, cg, rm, iso, u) ==
    [ano |-> a, senioridade |-> s, contrato |-> c, tamanho_empresa |-> t,
     cargo |-> cg, remoto |-> rm, residencia_iso3 |-> iso, usd |-> u]

\* The kinds of CSV line the bounded datasets are built from.
RowTypes ==
    { CsvRow(2024, "junior", "integral", "pequena", "Data Analyst",   "presencial", "BRA", 100),
      CsvRow(2025, "senior", "integral", "pequena", "Data Analyst",   "remoto",     "USA", 300),
      CsvRow(2024, "senior", "parcial",  "pequena", "Data Scientist", "remoto",     "BRA", 200),
      CsvRow(2025, "junior", "parcial",  "media",   "Data Scientist", "hibrido",    "USA", 300) }

Datasets == UNION { [1..n -> RowTypes] : n \in 0..MaxRows }

\* Datasets with many roles: line i has the (i mod NumCargosTop)-th role.
TopRow(i, u) ==
    CsvRow(2025, "senior", "integral", "media",
           CargoNames[((i - 1) % NumCargosTop) + 1], "remoto", "BRA", u)

DatasetsTop ==
    UNION { { [i \in 1..n |-> TopRow(i, u[i])] : u \in [1..n -> {100, 200}] }
            : n \in 1..MaxRowsTop }

(***************************************************************************)
(* Floats                                                                  *)
(***************************************************************************)
RECURSIVE GCD(_, _)
GCD(a, b) == IF b = 0 THEN a ELSE GCD(b, a % b)

NaN == <<0, 0>>

IsNaN(x) == x[2] = 0

Frac(n, d) ==
    IF d = 0 THEN NaN
    ELSE LET g == GCD(IF n < 0 THEN -n ELSE n, d)
         IN  <<n \div g, d \div g>>

Float(n) == <<n, 1>>

\* x < y on floats; every comparison with NaN is false.
FLess(x, y) == ~IsNaN(x) /\ ~IsNaN(y) /\ x[1] * y[2] < y[1] * x[2]

FSub(x, y) ==
    IF IsNaN(x) \/ IsNaN(y) THEN NaN
    ELSE Frac(x[1] * y[2] - y[1] * x[2], x[2] * y[2])

(***************************************************************************)
(* pandas operations used by the script                                    *)
(***************************************************************************)
\* pd.read_csv: the lines of the file with a RangeIndex 0..n-1 (l.77).
read_csv(file) == [i \in 1..Len(file) |-> file[i] @@ ("index" :> (i - 1))]

\* frame[col]: the column as a sequence of values.
Col(frame, col) == [i \in 1..Len(frame) |-> frame[i][col]]

\* sorted(frame[col].unique()): the distinct values; a multiselect only
\* uses the order of its options for display, so a set is kept (l.91).
unique(series) == { series[i] : i \in 1..Len(series) }

\* isin with an empty list taken to mean "no restriction".
isin_empty_is_all(series, values) ==
    [i \in 1..Len(series) |-> values = {} \/ series[i] \in values]

\* series.isin(values): the boolean mask (l.118).
isin(series, values) == [i \in 1..Len(series) |-> series[i] \in values]

\* The masks combined with | instead of &.
MaskAnd_or(m1, m2) == [i \in 1..Len(m1) |-> m1[i] \/ m2[i]]

\* mask & mask (l.118-121).
MaskAnd(m1, m2) == [i \in 1..Len(m1) |-> m1[i] /\ m2[i]]

\* series == value (l.253).
MaskEq(series, value) == [i \in 1..Len(series) |-> series[i] = value]

\* Boolean indexing that never looks at the last row.
BoolIndex_skip_last(frame, mask) ==
    LET F[i \in 0..Len(frame)] ==
            IF i = 0 THEN <<>>
            ELSE IF mask[i] /\ i < Len(frame) THEN Append(F[i - 1], frame[i]) ELSE F[i - 1]
    IN  F[Len(frame)]

\* frame[mask]: the rows whose mask entry is True, in frame order, each
\* keeping its index label (l.117, l.253).
BoolIndex(frame, mask) ==
    LET F[i \in 0..Len(frame)] ==
            IF i = 0 THEN <<>>
            ELSE IF mask[i] THEN Append(F[i - 1], frame[i]) ELSE F[i - 1]
    IN  F[Len(frame)]

Sum(series) ==
    LET F[i \in 0..Len(series)] == IF i = 0 THEN 0 ELSE F[i - 1] + series[i]
    IN  F[Len(series)]

\* series.mean(): NaN on an empty series (l.147).
mean(series) == IF Len(series) = 0 THEN NaN ELSE Frac(Sum(series), Len(series))

\* series.min() in place of series.max().
max_is_min(series) ==
    IF Len(series) = 0 THEN <<0, 0>>
    ELSE <<CHOOSE m \in { series[i] : i \in 1..Len(series) } :
              \A v \in { series[i] : i \in 1..Len(series) } : m <= v, 1>>

\* series.max(): NaN on an empty series (l.148).
max(series) ==
    IF Len(series) = 0 THEN NaN
    ELSE Float(CHOOSE m \in unique(series) : \A v \in unique(series) : v <= m)

\* frame.shape[1], the number of columns, in place of frame.shape[0].
shape0_is_shape1(frame) ==
    IF Len(frame) = 0 THEN 0 ELSE Cardinality(DOMAIN frame[1] \ {"index"})

\* frame.shape[0] (l.149).
shape0(frame) == Len(frame)

Count(series, v) == Cardinality({ i \in 1..Len(series) : series[i] = v })

\* series.mode(): the most frequent values, sorted; empty on an empty
\* series (l.151).
mode(series, names) ==
    SelectSeq(names,
              LAMBDA v : /\ Count(series, v) > 0
                         /\ \A w \in unique(series) : Count(series, w) <= Count(series, v))

\* The per-key mean without the grouping: one entry per row.
groupby_mean_per_row(frame, key, names) ==
    [k \in 1..Len(frame) |-> (key :> frame[k][key]) @@ ("usd" :> <<frame[k].usd, 1>>)]

\* frame.groupby(key)["usd"].mean(): one entry per distinct key, in sorted
\* key order (l.172-173, l.256).
groupby_mean(frame, key, names) ==
    LET keys == SelectSeq(names, LAMBDA v : v \in unique(Col(frame, key)))
    IN  [k \in 1..Len(keys) |->
            (key :> keys[k]) @@
            ("usd" :> mean(Col(BoolIndex(frame, MaskEq(Col(frame, key), keys[k])), "usd")))]

\* Where sorting puts x relative to an element e already placed:
\* "desc"       descending, equal values keep their order (nlargest keep='first')
\* "asc_first"  ascending, equal values keep their order
\* "asc_last"   ascending, equal values end up in reverse order
Before(order, x, e) ==
    CASE order = "desc"      -> FLess(e.usd, x.usd)
      [] order = "asc_first" -> FLess(x.usd, e.usd)
      [] order = "asc_last"  -> ~FLess(e.usd, x.usd)

RECURSIVE Insert(_, _, _)
Insert(order, x, s) ==
    IF s = <<>> THEN <<x>>
    ELSE IF Before(order, x, Head(s)) THEN <<x>> \o s
    ELSE <<Head(s)>> \o Insert(order, x, Tail(s))

SortBy(order, series) ==
    LET F[i \in 0..Len(series)] ==
            IF i = 0 THEN <<>> ELSE Insert(order, series[i], F[i - 1])
    IN  F[Len(series)]

\* series.head(n) in place of series.nlargest(n).
nlargest_is_head(series, n) ==
    SubSeq(series, 1, IF Len(series) < n THEN Len(series) ELSE n)

\* series.nlargest(n): the n largest entries in descending order, the first
\* occurrences winning among equal values (l.174).
nlargest(series, n) ==
    LET s == SortBy("desc", series)
    IN  SubSeq(s, 1, IF Len(s) < n THEN Len(s) ELSE n)

\* The orders sort_values() may leave equal values in: its default sort is
\* not stable.
TieOrders == {"asc_first", "asc_last"}

\* series.sort_values(): ascending (l.175).
sort_values(series, ties) == SortBy(ties, series)

\* series.value_counts().rename_axis(..).reset_index(name=..): one entry per
\* distinct value with its number of occurrences (l.236-239).
value_counts(series) ==
    { [tipo_trabalho |-> v, quantidade |-> Count(series, v)] : v \in unique(series) }

(***************************************************************************)
(* The script                                                              *)
(***************************************************************************)
TopN == 10

\* frame.empty (l.137, l.255) and series.empty (l.152).
empty(frame) == Len(frame) = 0

\* series.iloc[0] (l.151).
iloc_first(series) == series[1]

\* frame.iloc[-1] (l.184, l.186).
iloc_last(frame) == frame[Len(frame)]

\* @st.cache_data load_data(): the memoised frame when there is one, else
\* the file as read now (l.75-79).
load_data(memo, file) == IF Len(memo) = 0 THEN read_csv(file) ELSE memo[1]

\* st.sidebar.multiselect: the selection kept in the session for this
\* widget, or the default when the widget has none yet (l.89-111).
multiselect(state, label, options, default) ==
    IF label \in DOMAIN state THEN state[label] ELSE default

Labels == {"Ano", "Senioridade", "Tipo de Contrato", "Tamanho da Empresa"}

\* The column each sidebar widget takes its options from (l.91, 97, 103, 109).
ColumnOf ==
    [l \in Labels |->
        CASE l = "Ano"                -> "ano"
          [] l = "Senioridade"        -> "senioridade"
          [] l = "Tipo de Contrato"   -> "contrato"
          [] l = "Tamanho da Empresa" -> "tamanho_empresa"]

\* The mask of l.117-122.
filter_mask(frame, a, s, c, t) ==
    MaskAnd(MaskAnd(MaskAnd(isin(Col(frame, "ano"), a),
                            isin(Col(frame, "senioridade"), s)),
                    isin(Col(frame, "contrato"), c)),
            isin(Col(frame, "tamanho_empresa"), t))

\* l.150-154.
cargo_mais_frequente_of(frame) ==
    IF ~empty(mode(Col(frame, "cargo"), CargoNames))
    THEN iloc_first(mode(Col(frame, "cargo"), CargoNames))
    ELSE "-"

\* l.171-177.
top_cargos_of(frame, ties) ==
    sort_values(nlargest(groupby_mean(frame, "cargo", CargoNames), TopN), ties)

\* A fresh namespace: what the names of the script hold before the run
\* assigns them (bound tells which ones the run has assigned).
Fresh ==
    [df |-> <<>>, sel |-> {}, frame |-> <<>>, float |-> NaN, int |-> 0, str |-> ""]

FreshRun ==
    /\ df = Fresh.df
    /\ anos = Fresh.sel /\ senioridades = Fresh.sel
    /\ contratos = Fresh.sel /\ tamanhos = Fresh.sel
    /\ df_filtrado = Fresh.frame
    /\ salario_medio = Fresh.float /\ salario_maximo = Fresh.float
    /\ total_registros = Fresh.int
    /\ cargo_mais_frequente = Fresh.str
    /\ top_cargos = Fresh.frame
    /\ dispersao = Fresh.float
    /\ remoto = Fresh.sel
    /\ df_ds = Fresh.frame /\ media_pais = Fresh.frame
    /\ bound = {}
    /\ rendered = {}

\* A new run of the script starts in a fresh namespace.
StartRun ==
    /\ pc' = "load"
    /\ df' = Fresh.df
    /\ anos' = Fresh.sel /\ senioridades' = Fresh.sel
    /\ contratos' = Fresh.sel /\ tamanhos' = Fresh.sel
    /\ df_filtrado' = Fresh.frame
    /\ salario_medio' = Fresh.float /\ salario_maximo' = Fresh.float
    /\ total_registros' = Fresh.int
    /\ cargo_mais_frequente' = Fresh.str
    /\ top_cargos' = Fresh.frame
    /\ dispersao' = Fresh.float
    /\ remoto' = Fresh.sel
    /\ df_ds' = Fresh.frame /\ media_pais' = Fresh.frame
    /\ bound' = {}
    /\ rendered' = {}

InitWith(files) ==
    /\ csv \in files
    /\ cache = <<>>
    /\ session = <<>>
    /\ pc = "load"
    /\ FreshRun

Init == InitWith(Datasets)

InitTop == InitWith(DatasetsTop)

\* l.81
Load ==
    /\ pc = "load"
    /\ df' = load_data(cache, csv)
    /\ cache' = IF Len(cache) = 0 THEN <<df'>> ELSE cache
    /\ bound' = bound \cup {"df"}
    /\ pc' = "sidebar"
    /\ UNCHANGED <<csv, session, anos, senioridades, contratos, tamanhos,
                   df_filtrado, salario_medio, salario_maximo, total_registros,
                   cargo_mais_frequente, top_cargos, dispersao, remoto, df_ds,
                   media_pais, rendered>>

\* l.87-111
Sidebar ==
    /\ pc = "sidebar"
    /\ anos' = multiselect(session, "Ano",
                           unique(Col(df, "ano")), unique(Col(df, "ano")))
    /\ senioridades' = multiselect(session, "Senioridade",
                           unique(Col(df, "senioridade")), unique(Col(df, "senioridade")))
    /\ contratos' = multiselect(session, "Tipo de Contrato",
                           unique(Col(df, "contrato")), unique(Col(df, "contrato")))
    /\ tamanhos' = multiselect(session, "Tamanho da Empresa",
                           unique(Col(df, "tamanho_empresa")), unique(Col(df, "tamanho_empresa")))
    /\ session' = [l \in Labels |->
                      CASE l = "Ano"                -> anos'
                        [] l = "Senioridade"        -> senioridades'
                        [] l = "Tipo de Contrato"   -> contratos'
                        [] l = "Tamanho da Empresa" -> tamanhos']
    /\ bound' = bound \cup {"anos", "senioridades", "contratos", "tamanhos"}
    /\ rendered' = rendered \cup {"sidebar"}
    /\ pc' = "filter"
    /\ UNCHANGED <<csv, cache, df, df_filtrado, salario_medio, salario_maximo,
                   total_registros, cargo_mais_frequente, top_cargos, dispersao,
                   remoto, df_ds, media_pais>>

\* The filter applied in place to the memoised frame.
Filter_in_place ==
    /\ pc = "filter"
    /\ df_filtrado' = BoolIndex(df, filter_mask(df, anos, senioridades, contratos, tamanhos))
    /\ cache' = <<df_filtrado'>>
    /\ bound' = bound \cup {"df_filtrado"}
    /\ pc' = "guard"
    /\ UNCHANGED <<csv, session, df, anos, senioridades, contratos, tamanhos,
                   salario_medio, salario_maximo, total_registros,
                   cargo_mais_frequente, top_cargos, dispersao, remoto, df_ds,
                   media_pais, rendered>>

\* l.117-122
Filter ==
    /\ pc = "filter"
    /\ df_filtrado' = BoolIndex(df, filter_mask(df, anos, senioridades, contratos, tamanhos))
    /\ bound' = bound \cup {"df_filtrado"}
    /\ pc' = "guard"
    /\ UNCHANGED <<csv, cache, session, df, anos, senioridades, contratos, tamanhos,
                   salario_medio, salario_maximo, total_registros,
                   cargo_mais_frequente, top_cargos, dispersao, remoto, df_ds,
                   media_pais, rendered>>

\* The guard without st.stop().
Guard_no_stop ==
    /\ pc = "guard"
    /\ rendered' = rendered \cup (IF Len(df_filtrado) = 0 THEN {"title", "warning"}
                                  ELSE {"title"})
    /\ pc' = "kpis"
    /\ UNCHANGED <<csv, cache, session, df, anos, senioridades, contratos, tamanhos,
                   df_filtrado, salario_medio, salario_maximo, total_registros,
                   cargo_mais_frequente, top_cargos, dispersao, remoto, df_ds,
                   media_pais, bound>>

\* The guard testing the dataset instead of the view.
Guard_on_df ==
    /\ pc = "guard"
    /\ IF Len(df) = 0
       THEN /\ rendered' = rendered \cup {"title", "warning"}
            /\ pc' = "stopped"
       ELSE /\ rendered' = rendered \cup {"title"}
            /\ pc' = "kpis"
    /\ UNCHANGED <<csv, cache, session, df, anos, senioridades, contratos, tamanhos,
                   df_filtrado, salario_medio, salario_maximo, total_registros,
                   cargo_mais_frequente, top_cargos, dispersao, remoto, df_ds,
                   media_pais, bound>>

\* l.128-139: the title, then st.warning and st.stop() on an empty view.
Guard ==
    /\ pc = "guard"
    /\ IF empty(df_filtrado)
       THEN /\ rendered' = rendered \cup {"title", "warning"}
            /\ pc' = "stopped"
       ELSE /\ rendered' = rendered \cup {"title"}
            /\ pc' = "kpis"
    /\ UNCHANGED <<csv, cache, session, df, anos, senioridades, contratos, tamanhos,
                   df_filtrado, salario_medio, salario_maximo, total_registros,
                   cargo_mais_frequente, top_cargos, dispersao, remoto, df_ds,
                   media_pais, bound>>

\* l.145-163
KPIs ==
    /\ pc = "kpis"
    /\ salario_medio' = mean(Col(df_filtrado, "usd"))
    /\ salario_maximo' = max(Col(df_filtrado, "usd"))
    /\ total_registros' = shape0(df_filtrado)
    /\ cargo_mais_frequente' = cargo_mais_frequente_of(df_filtrado)
    /\ bound' = bound \cup {"salario_medio", "salario_maximo", "total_registros",
                            "cargo_mais_frequente"}
    /\ rendered' = rendered \cup {"metric_salario_medio", "metric_salario_maximo",
                                  "metric_total_registros", "metric_cargo_mais_frequente"}
    /\ pc' = "insights"
    /\ UNCHANGED <<csv, cache, session, df, anos, senioridades, contratos, tamanhos,
                   df_filtrado, top_cargos, dispersao, remoto, df_ds, media_pais>>

\* l.169-199: top_cargos.iloc[-1] raises IndexError on an empty frame, which
\* ends the run before the second column is filled.
Insights ==
    /\ pc = "insights"
    /\ \E ties \in TieOrders : top_cargos' = top_cargos_of(df_filtrado, ties)
    /\ IF empty(top_cargos')
       THEN /\ bound' = bound \cup {"top_cargos"}
            /\ rendered' = rendered \cup {"exception"}
            /\ pc' = "error"
            /\ UNCHANGED dispersao
       ELSE /\ dispersao' = FSub(salario_maximo, salario_medio)
            /\ bound' = bound \cup {"top_cargos", "dispersao"}
            /\ rendered' = rendered \cup {"insight_cargo", "insight_dispersao"}
            /\ pc' = "charts"
    /\ UNCHANGED <<csv, cache, session, df, anos, senioridades, contratos, tamanhos,
                   df_filtrado, salario_medio, salario_maximo, total_registros,
                   cargo_mais_frequente, remoto, df_ds, media_pais>>

\* l.205-270
Charts ==
    /\ pc = "charts"
    /\ remoto' = value_counts(Col(df_filtrado, "remoto"))
    /\ df_ds' = BoolIndex(df_filtrado, MaskEq(Col(df_filtrado, "cargo"), "Data Scientist"))
    /\ IF ~empty(df_ds')
       THEN /\ media_pais' = groupby_mean(df_ds', "residencia_iso3", PaisNames)
            /\ bound' = bound \cup {"remoto", "df_ds", "media_pais"}
            /\ rendered' = rendered \cup {"fig_cargos", "fig_hist", "fig_remoto", "fig_paises"}
       ELSE /\ UNCHANGED media_pais
            /\ bound' = bound \cup {"remoto", "df_ds"}
            /\ rendered' = rendered \cup {"fig_cargos", "fig_hist", "fig_remoto",
                                          "info_sem_data_scientist"}
    /\ pc' = "table"
    /\ UNCHANGED <<csv, cache, session, df, anos, senioridades, contratos, tamanhos,
                   df_filtrado, salario_medio, salario_maximo, total_registros,
                   cargo_mais_frequente, top_cargos, dispersao>>

\* l.276-277
Table ==
    /\ pc = "table"
    /\ rendered' = rendered \cup {"table"}
    /\ pc' = "done"
    /\ UNCHANGED <<csv, cache, session, df, anos, senioridades, contratos, tamanhos,
                   df_filtrado, salario_medio, salario_maximo, total_registros,
                   cargo_mais_frequente, top_cargos, dispersao, remoto, df_ds,
                   media_pais, bound>>

\* The user changes the selection of one sidebar widget: the session keeps
\* the new selection and the script is run again from the top in a fresh
\* namespace, whatever the running script was doing.
ChangeFilter ==
    /\ pc \notin {"load", "sidebar"}
    /\ \E l \in Labels :
         \E sel \in SUBSET unique(Col(df, ColumnOf[l])) :
            /\ sel # session[l]
            /\ session' = [session EXCEPT ![l] = sel]
    /\ StartRun
    /\ UNCHANGED <<csv, cache>>

\* The script is run again with the selections unchanged.
Rerun ==
    /\ pc \in {"done", "stopped", "error"}
    /\ StartRun
    /\ UNCHANGED <<csv, cache, session>>

Run == Load \/ Sidebar \/ Filter \/ Guard \/ KPIs \/ Insights \/ Charts \/ Table

Next == Run \/ ChangeFilter \/ Rerun

Spec == Init /\ [][Next]_vars

\* One run of the script over a CSV file with many roles.
NextTop == Run

SpecTop == InitTop /\ [][NextTop]_vars

(***************************************************************************)
(* Properties.  The helpers below state what a result should be directly   *)
(* from the rows, without the pandas operations above.                     *)
(***************************************************************************)
Passes(r, a, s, c, t) ==
    /\ r.ano \in a
    /\ r.senioridade \in s
    /\ r.contrato \in c
    /\ r.tamanho_empresa \in t

ViewOf(d, a, s, c, t) == SelectSeq(d, LAMBDA r : Passes(r, a, s, c, t))

Values(v, field) == { v[i][field] : i \in 1..Len(v) }

RowsWith(v, field, val) == { i \in 1..Len(v) : v[i][field] = val }

RECURSIVE UsdOver(_, _)
UsdOver(v, I) ==
    IF I = {} THEN 0
    ELSE LET i == CHOOSE j \in I : TRUE IN v[i].usd + UsdOver(v, I \ {i})

\* The float x is the quotient total / n.
IsQuotient(x, total, n) == n > 0 /\ x[2] > 0 /\ x[1] * n = total * x[2]

\* The mean salary of the rows of v whose field is val, as an unreduced
\* fraction.
GroupMean(v, field, val) ==
    <<UsdOver(v, RowsWith(v, field, val)), Cardinality(RowsWith(v, field, val))>>

\* The float x is the mean salary of the rows of v whose field is val.
IsGroupMean(x, v, field, val) ==
    IsQuotient(x, GroupMean(v, field, val)[1], GroupMean(v, field, val)[2])

FLeq(x, y) == x[1] * y[2] <= y[1] * x[2]

Filtered == "df_filtrado" \in bound

PastGuard == Filtered /\ pc # "guard"

\* C1: the filtered view holds exactly the rows of the dataset whose year,
\* seniority, contract type and company size are all in the selected sets,
\* and in the order of the dataset.
C1_FilterExact ==
    Filtered =>
      /\ \A k \in 1..Len(df_filtrado) :
            /\ df_filtrado[k].index + 1 \in 1..Len(df)
            /\ df[df_filtrado[k].index + 1] = df_filtrado[k]
            /\ Passes(df_filtrado[k], anos, senioridades, contratos, tamanhos)
      /\ \A i \in 1..Len(df) :
            Passes(df[i], anos, senioridades, contratos, tamanhos)
               => \E k \in 1..Len(df_filtrado) : df_filtrado[k] = df[i]
      /\ \A k, l \in 1..Len(df_filtrado) :
            k < l => df_filtrado[k].index < df_filtrado[l].index

\* A view that keeps two rows and drops one that lies between them.
C1_Witness ==
    /\ Filtered
    /\ \E k \in 1..(Len(df_filtrado) - 1) :
          df_filtrado[k + 1].index > df_filtrado[k].index + 1

Aggregates ==
    {"salario_medio", "salario_maximo", "total_registros", "cargo_mais_frequente",
     "top_cargos", "dispersao", "remoto", "df_ds", "media_pais"}

AggregateOutputs ==
    {"metric_salario_medio", "metric_salario_maximo", "metric_total_registros",
     "metric_cargo_mais_frequente", "insight_cargo", "insight_dispersao",
     "fig_cargos", "fig_hist", "fig_remoto", "fig_paises",
     "info_sem_data_scientist", "table"}

\* C2: once the guard has seen an empty view the run is stopped for good
\* with the warning shown, and no aggregate is computed or rendered.
C2_NoData ==
    (PastGuard /\ Len(df_filtrado) = 0) =>
      /\ pc = "stopped"
      /\ ~ENABLED Run
      /\ "warning" \in rendered
      /\ bound \cap Aggregates = {}
      /\ rendered \cap AggregateOutputs = {}

\* A run stopped on an empty view of a dataset that has rows.
C2_Witness ==
    /\ pc = "stopped"
    /\ Len(df) > 0
    /\ Len(df_filtrado) = 0
    /\ "warning" \in rendered

FullSelection ==
    /\ anos = Values(df, "ano")
    /\ senioridades = Values(df, "senioridade")
    /\ contratos = Values(df, "contrato")
    /\ tamanhos = Values(df, "tamanho_empresa")

\* C3: with every set equal to the distinct values of its column, the view
\* is the dataset and the record count is the number of rows of the dataset.
C3_Identity ==
    (Filtered /\ FullSelection) =>
      /\ df_filtrado = df
      /\ "total_registros" \in bound => total_registros = Len(df)

\* The record count computed under the full selection of a dataset with
\* several rows and two years.
C3_Witness ==
    /\ FullSelection
    /\ "total_registros" \in bound
    /\ Len(df) >= 2
    /\ Cardinality(anos) = 2

\* C4: an empty set for any of the four columns gives an empty view.
C4_EmptySet ==
    (Filtered /\ (anos = {} \/ senioridades = {} \/ contratos = {} \/ tamanhos = {}))
       => Len(df_filtrado) = 0

\* Only the company-size set is empty, the other three select every row.
C4_Witness ==
    /\ Filtered
    /\ Len(df) > 0
    /\ tamanhos = {}
    /\ anos = Values(df, "ano")
    /\ senioridades = Values(df, "senioridade")
    /\ contratos = Values(df, "contrato")

\* The view the current selections of the session give on the dataset d.
SessionView(d, state) ==
    ViewOf(d, state["Ano"], state["Senioridade"], state["Tipo de Contrato"],
           state["Tamanho da Empresa"])

\* What a finished run shows, and what the dataset d and the selections of
\* the session alone determine it to be.
Shown ==
    <<df_filtrado, bound, rendered, salario_medio, salario_maximo, total_registros,
      cargo_mais_frequente, { top_cargos[k] : k \in 1..Len(top_cargos) },
      remoto, media_pais>>

ShownFor(d, state) ==
    LET v  == SessionView(d, state)
        ds == SelectSeq(v, LAMBDA r : r.cargo = "Data Scientist")
        tc == top_cargos_of(v, "asc_first")
    IN  IF Len(v) = 0
        THEN <<v, {"df", "anos", "senioridades", "contratos", "tamanhos", "df_filtrado"},
               {"sidebar", "title", "warning"},
               Fresh.float, Fresh.float, Fresh.int, Fresh.str, {}, Fresh.sel, Fresh.frame>>
        ELSE <<v,
               {"df", "anos", "senioridades", "contratos", "tamanhos", "df_filtrado"}
                  \cup (Aggregates \ (IF Len(ds) = 0 THEN {"media_pais"} ELSE {})),
               {"sidebar", "title"}
                  \cup (AggregateOutputs \ (IF Len(ds) = 0 THEN {"fig_paises"}
                                            ELSE {"info_sem_data_scientist"})),
               mean(Col(v, "usd")), max(Col(v, "usd")), Len(v),
               cargo_mais_frequente_of(v), { tc[k] : k \in 1..Len(tc) },
               value_counts(Col(v, "remoto")),
               IF Len(ds) = 0 THEN Fresh.frame
               ELSE groupby_mean(ds, "residencia_iso3", PaisNames)>>

\* C5: the loaded dataset is never modified, and whatever selections came
\* before, a finished run shows what the loaded dataset and the current
\* selections determine.
C5_Stateless ==
    [][ /\ Len(cache) > 0 => cache' = cache
        /\ pc' \in {"done", "stopped"} => Shown' = ShownFor(cache'[1], session') ]_vars

\* A finished run with rows left in the view after the user had narrowed
\* two of the selections.
C5_Witness ==
    /\ pc = "done"
    /\ anos # Values(df, "ano")
    /\ contratos # Values(df, "contrato")
    /\ Len(df_filtrado) > 0

\* C6: the top roles are at most 10, one entry per role, each with the mean
\* salary of its role; no role left out has a larger mean than a role kept;
\* they are in ascending order of mean and the last one has the largest
\* mean of all roles of the view.
C6_TopRoles ==
    ("top_cargos" \in bound /\ Len(df_filtrado) > 0) =>
      LET roles == Values(df_filtrado, "cargo")
          kept  == { top_cargos[k].cargo : k \in 1..Len(top_cargos) }
      IN  /\ Len(top_cargos) <= 10
          /\ Len(top_cargos) = (IF Cardinality(roles) < 10 THEN Cardinality(roles) ELSE 10)
          /\ \A k, l \in 1..Len(top_cargos) :
                k # l => top_cargos[k].cargo # top_cargos[l].cargo
          /\ \A k \in 1..Len(top_cargos) :
                /\ top_cargos[k].cargo \in roles
                /\ IsGroupMean(top_cargos[k].usd, df_filtrado, "cargo", top_cargos[k].cargo)
          /\ \A r \in roles \ kept : \A k \in 1..Len(top_cargos) :
                FLeq(GroupMean(df_filtrado, "cargo", r), top_cargos[k].usd)
          /\ \A k, l \in 1..Len(top_cargos) :
                k < l => FLeq(top_cargos[k].usd, top_cargos[l].usd)
          /\ \A r \in roles :
                FLeq(GroupMean(df_filtrado, "cargo", r), top_cargos[Len(top_cargos)].usd)

\* More than 10 roles in the view, 10 kept with different means among them,
\* and the role left out has a smaller mean than the first one kept.
C6_Witness ==
    /\ "top_cargos" \in bound
    /\ Cardinality(Values(df_filtrado, "cargo")) > 10
    /\ Len(top_cargos) = 10
    /\ FLess(top_cargos[1].usd, top_cargos[10].usd)
    /\ \E r \in Values(df_filtrado, "cargo") :
          /\ \A k \in 1..Len(top_cargos) : top_cargos[k].cargo # r
          /\ FLess(GroupMean(df_filtrado, "cargo", r), top_cargos[1].usd)

\* C7: the maximum salary of the view is at least the maximum salary of the
\* view of any selection whose four sets are subsets of the current ones.
C7_MaxMonotone ==
    "salario_maximo" \in bound =>
      \A a \in SUBSET anos, s \in SUBSET senioridades,
         c \in SUBSET contratos, t \in SUBSET tamanhos :
         \A i \in 1..Len(ViewOf(df, a, s, c, t)) :
            /\ salario_maximo[2] = 1
            /\ ViewOf(df, a, s, c, t)[i].usd <= salario_maximo[1]

\* A narrower selection with rows whose maximum is below the current one.
C7_Witness ==
    /\ "salario_maximo" \in bound
    /\ \E a \in SUBSET anos :
          /\ a # anos
          /\ Len(ViewOf(df, a, senioridades, contratos, tamanhos)) > 0
          /\ \A i \in 1..Len(ViewOf(df, a, senioridades, contratos, tamanhos)) :
                ViewOf(df, a, senioridades, contratos, tamanhos)[i].usd < salario_maximo[1]

\* Roles A, A, B with salaries 100, 300, 200.
IsExampleView ==
    /\ Col(df_filtrado, "cargo") = <<"Data Analyst", "Data Analyst", "Data Scientist">>
    /\ Col(df_filtrado, "usd") = <<100, 300, 200>>

\* C8: on a view with rows, the record count is the number of rows, the
\* maximum is the largest salary, the mean is the sum of the salaries over
\* the count, and the most frequent role is a role with the most rows; on
\* roles A, A, B with 100, 300, 200 they are 3, 300, 200 and A.
C8_KPIs ==
    ("salario_medio" \in bound /\ Len(df_filtrado) > 0) =>
      /\ total_registros = Cardinality({ df_filtrado[i].index : i \in 1..Len(df_filtrado) })
      /\ salario_maximo[2] = 1
      /\ salario_maximo[1] \in Values(df_filtrado, "usd")
      /\ \A u \in Values(df_filtrado, "usd") : u <= salario_maximo[1]
      /\ IsQuotient(salario_medio, UsdOver(df_filtrado, 1..Len(df_filtrado)), total_registros)
      /\ cargo_mais_frequente \in Values(df_filtrado, "cargo")
      /\ \A r \in Values(df_filtrado, "cargo") :
            Cardinality(RowsWith(df_filtrado, "cargo", r))
               <= Cardinality(RowsWith(df_filtrado, "cargo", cargo_mais_frequente))
      /\ IsExampleView =>
            /\ salario_medio = <<200, 1>>
            /\ salario_maximo = <<300, 1>>
            /\ total_registros = 3
            /\ cargo_mais_frequente = "Data Analyst"

\* The KPIs of the example view.
C8_Witness == "salario_medio" \in bound /\ IsExampleView

\* C9: the country aggregate works on the Data Scientist rows of the view;
\* a run that is past the charts shows either the message and no country
\* aggregate (no such row) or the chart of an aggregate with exactly one
\* entry, the mean salary, per country of those rows, never both.
C9_Country ==
    pc \in {"table", "done"} =>
      LET ds == SelectSeq(df_filtrado, LAMBDA r : r.cargo = "Data Scientist")
      IN  /\ df_ds = ds
          /\ ("fig_paises" \in rendered) # ("info_sem_data_scientist" \in rendered)
          /\ IF Len(ds) = 0
             THEN /\ "info_sem_data_scientist" \in rendered
                  /\ "media_pais" \notin bound
             ELSE /\ "fig_paises" \in rendered
                  /\ "media_pais" \in bound
                  /\ \A c \in Values(ds, "residencia_iso3") :
                        Cardinality({ k \in 1..Len(media_pais) :
                                        media_pais[k].residencia_iso3 = c }) = 1
                  /\ \A k \in 1..Len(media_pais) :
                        /\ media_pais[k].residencia_iso3 \in Values(ds, "residencia_iso3")
                        /\ IsGroupMean(media_pais[k].usd, ds, "residencia_iso3",
                                       media_pais[k].residencia_iso3)

\* Three Data Scientist rows from two countries.
C9_Witness ==
    /\ pc = "done"
    /\ Len(df_ds) = 3
    /\ Len(media_pais) = 2

\* C10 as stated: a run whose view is empty reports "-" as the most
\* frequent role.
C10_SentinelReported ==
    (pc = "stopped" /\ Len(df_filtrado) = 0) =>
      /\ "metric_cargo_mais_frequente" \in rendered
      /\ cargo_mais_frequente = "-"

\* C10 amended: a run whose view is empty is stopped by the guard before the
\* KPIs, so it computes and reports no most frequent role; "-" is the value
\* of the most frequent role only when the view has no role at all.
C10_SentinelUnreached ==
    /\ (PastGuard /\ Len(df_filtrado) = 0) =>
          /\ pc = "stopped"
          /\ "cargo_mais_frequente" \notin bound
          /\ "metric_cargo_mais_frequente" \notin rendered
    /\ "cargo_mais_frequente" \in bound =>
          (cargo_mais_frequente = "-" <=> Values(df_filtrado, "cargo") = {})

\* A stopped run on an empty view, reached after the user emptied the
\* seniority selection of a dataset that has rows.
C10_Witness ==
    /\ pc = "stopped"
    /\ Len(df) > 0
    /\ senioridades = {}
    /\ "cargo_mais_frequente" \notin bound

====
